---- MODULE Spec2Model ----
(***************************************************************************)
(* GatePoint interaction gateway (src/gatepoint/gateway.py).               *)
(*                                                                         *)
(* State: the GatewayClient registries (commands, buttons, menus, events), *)
(* the list objects the events registry points to, the server phase, and   *)
(* one record per in-flight POST /interaction coroutine.  One action is    *)
(* one run of code between two suspension points of the asyncio loop.      *)
(*                                                                         *)
(* Outside the model: the outbound REST registration of command() (lines   *)
(* 144-161), GET / and the Bot lookup of the constructor.                  *)
(***************************************************************************)
EXTENDS Integers, Sequences, FiniteSets, TLC

\* ------------------------------------------------------------------ bounds
\* Number of functions registered (command, button, menu, on) in one run.
MaxFuncs == 3

\* ------------------------------------------------------------ input domains
Keys == {"k1", "k2"}
EventNames ==
    {"startup", "interaction_receive", "command_receive", "button_click", "menu_select"}
Reqs == {1, 2}
SignatureHeaders == {"absent", "empty", "nothex", "badlen", "hex64"}
TimestampHeaders == {"absent", "empty", "present"}
PublicKeys == {"hex32", "malformed"}

\* interaction_payload["type"] values: 1 ping, 2 command, 3 component, 4 a
\* known unimplemented type, 0 and 12 outside the platform's range.
PayloadTypes == {0, 1, 2, 3, 4, 12}
\* data.component_type values: 2 button, 3 and 8 the ends of the select range.
ComponentTypes == {2, 3, 8}

NoPayload ==
    [kind |-> "none", type |-> 0, name |-> "", custom_id |-> "", component_type |-> 0,
     has_options |-> FALSE, options |-> <<>>, values |-> <<>>]

JsonPayload(t, n, c, ct, ho, os, vs) ==
    [kind |-> "json", type |-> t, name |-> n, custom_id |-> c, component_type |-> ct,
     has_options |-> ho, options |-> os, values |-> vs]

\* Bodies a client can send: undecodable bytes, text that is not JSON, and
\* interaction payloads of the platform's schema.
Bodies ==
    {[NoPayload EXCEPT !.kind = "notutf8"], [NoPayload EXCEPT !.kind = "notjson"]}
    \cup {JsonPayload(t, "", "", 0, FALSE, <<>>, <<>>) : t \in PayloadTypes \ {2, 3}}
    \cup {JsonPayload(2, n, "", 0, FALSE, <<>>, <<>>) : n \in Keys}
    \cup {JsonPayload(2, n, "", 0, TRUE, os, <<>>) : n \in Keys, os \in {<<>>, <<"a", "b">>}}
    \cup {JsonPayload(3, "", c, 2, FALSE, <<>>, <<>>) : c \in Keys}
    \cup {JsonPayload(3, "", c, ct, FALSE, <<>>, vs) :
            c \in Keys, ct \in ComponentTypes \ {2}, vs \in {<<>>, <<"x", "y">>}}

\* ------------------------------------------------------------------- state
VARIABLES
    public_key,   \* self.public_key, as given to the constructor
    commands,     \* self.commands: key -> function id, 0 = key not in the dict
    buttons,      \* self.buttons
    menus,        \* self.menus
    events,       \* self.events: event name -> absent | None | reference to a list
    heap,         \* the list objects created by on(); heap[ref] is a list of hook ids
    nfuncs,       \* functions decorated so far; the n-th one has identity n
    on_calls,     \* history: per event name, the functions on(event) was given, in order
    decorated,    \* history: decorated[n] is the decorator call that registered function n
    phase,        \* "config" | "startup" | "serving" | "exited"
    startup,      \* the startup_event coroutine: its loop position and call log
    req           \* the interaction(request) coroutines

vars == <<public_key, commands, buttons, menus, events, heap, nfuncs, on_calls, decorated,
          phase, startup, req>>

registries == <<commands, buttons, menus, events, heap, nfuncs, on_calls, decorated>>

\* ------------------------------------------------------- missing collaborators
\* CommandInteraction(name = n).name, ButtonInteraction(custom_id = c).custom_id
\* and MenuInteraction(custom_id = c).custom_id: the registry key is the
\* identifier the decorator was given.
InteractionKey(id) == id

\* Interaction(interaction_payload): the facade wraps the payload it is given.
Interaction(payload) == payload

\* ---------------------------------------------------------------- registries
NotRegistered == 0
AbsentEntry == [tag |-> "absent", ref |-> 0]
NoneEntry == [tag |-> "none", ref |-> 0]
ListEntry(ref) == [tag |-> "list", ref |-> ref]

\* self.events.get(event): a list reference, or 0 for None (key absent, or
\* the value None).
EventsGet(event) == IF events[event].tag = "list" THEN events[event].ref ELSE 0

\* Python truthiness of a value that is None or a list.
Truthy(ref) == ref # 0 /\ Len(heap[ref]) > 0

\* self.events.get(event) or []: 0 stands for the fresh empty list.
EventsGetOrEmpty(event) == IF Truthy(EventsGet(event)) THEN EventsGet(event) ELSE 0

\* Mutant: `if self.commands:` in place of the membership test.
InRegistryNonEmpty(registry, key) == \E k \in Keys : registry[k] # NotRegistered

\* name in self.commands, custom_id in self.menus, custom_id in self.buttons
InRegistry(registry, key) == registry[key] # NotRegistered

\* The decorator call `deco(key)(func)`, as the history records it.
Decoration(deco, key) == [deco |-> deco, key |-> key]

\* --- reading the history of decorator calls
\* The function given to the last call of decorator deco with this key, 0
\* when there was none.
LastDecorated(deco, key) ==
    LET given == {n \in 1..Len(decorated) : decorated[n] = Decoration(deco, key)}
    IN  IF given = {} THEN 0 ELSE CHOOSE n \in given : \A m \in given : m <= n

\* The functions given to decorator deco with this key among the first n
\* decorated functions.
DecoratedUpTo(deco, key, n) ==
    {m \in 1..n : m <= Len(decorated) /\ decorated[m] = Decoration(deco, key)}

\* The key a routed request is dispatched on.
RoutedKey(q) ==
    IF q.kind = "command" THEN q.interaction_payload.name
                          ELSE q.interaction_payload.custom_id

\* Mutant: a name that is registered already keeps its first handler.
RegisterCommandFirstWins(name) ==
    /\ phase # "exited"
    /\ nfuncs < MaxFuncs
    /\ nfuncs' = nfuncs + 1
    /\ commands' = IF commands[name] = NotRegistered
                   THEN [commands EXCEPT ![name] = nfuncs + 1]
                   ELSE commands
    /\ decorated' = Append(decorated, Decoration("command", name))
    /\ UNCHANGED <<public_key, buttons, menus, events, heap, on_calls, phase, startup, req>>

\* command(name)(func): self.commands[interaction.name] = func
RegisterCommand(name) ==
    /\ phase # "exited"
    /\ nfuncs < MaxFuncs
    /\ nfuncs' = nfuncs + 1
    /\ commands' = [commands EXCEPT ![InteractionKey(name)] = nfuncs + 1]
    /\ decorated' = Append(decorated, Decoration("command", name))
    /\ UNCHANGED <<public_key, buttons, menus, events, heap, on_calls, phase, startup, req>>

\* button(custom_id)(func): self.buttons[interaction.custom_id] = func
RegisterButton(custom_id) ==
    /\ phase # "exited"
    /\ nfuncs < MaxFuncs
    /\ nfuncs' = nfuncs + 1
    /\ buttons' = [buttons EXCEPT ![InteractionKey(custom_id)] = nfuncs + 1]
    /\ decorated' = Append(decorated, Decoration("button", custom_id))
    /\ UNCHANGED <<public_key, commands, menus, events, heap, on_calls, phase, startup, req>>

\* Mutant: buttons and menus are kept in one registry of components, so a
\* menu registered under a button's custom id takes its place.
RegisterMenuShared(custom_id) ==
    /\ phase # "exited"
    /\ nfuncs < MaxFuncs
    /\ nfuncs' = nfuncs + 1
    /\ menus' = [menus EXCEPT ![custom_id] = nfuncs + 1]
    /\ buttons' = [buttons EXCEPT ![custom_id] = nfuncs + 1]
    /\ decorated' = Append(decorated, Decoration("menu", custom_id))
    /\ UNCHANGED <<public_key, commands, events, heap, on_calls, phase, startup, req>>

\* menu(custom_id)(func): self.menus[interaction.custom_id] = func
RegisterMenu(custom_id) ==
    /\ phase # "exited"
    /\ nfuncs < MaxFuncs
    /\ nfuncs' = nfuncs + 1
    /\ menus' = [menus EXCEPT ![InteractionKey(custom_id)] = nfuncs + 1]
    /\ decorated' = Append(decorated, Decoration("menu", custom_id))
    /\ UNCHANGED <<public_key, commands, buttons, events, heap, on_calls, phase, startup, req>>

\* on(event)(func), line 199-200:
\*   event_list = self.events.get(event).append(func) if self.events.get(event) else [func]
\*   self.events[event] = event_list
\* list.append returns None, so the second registration appends func to the
\* existing list object and then stores None under the event name.
On(event) ==
    /\ phase # "exited"
    /\ nfuncs < MaxFuncs
    /\ nfuncs' = nfuncs + 1
    /\ LET func == nfuncs + 1
           cur == EventsGet(event)
       IN  IF Truthy(cur)
           THEN /\ heap' = [heap EXCEPT ![cur] = Append(@, func)]
                /\ events' = [events EXCEPT ![event] = NoneEntry]
           ELSE /\ heap' = Append(heap, <<func>>)
                /\ events' = [events EXCEPT ![event] = ListEntry(Len(heap) + 1)]
    /\ on_calls' = [on_calls EXCEPT ![event] = Append(@, nfuncs + 1)]
    /\ decorated' = Append(decorated, Decoration("on", event))
    /\ UNCHANGED <<public_key, commands, buttons, menus, phase, startup, req>>

\* ------------------------------------------------------------------ call log
CallEntry(what, fn, facade, args) ==
    [op |-> "call", what |-> what, fn |-> fn, facade |-> facade, args |-> args]
EndEntry(op, what, fn) ==
    [op |-> op, what |-> what, fn |-> fn, facade |-> NoPayload, args |-> <<>>]

\* One positional argument after the facade: a scalar, or a whole list.
ScalarArg(v) == [list |-> FALSE, v |-> <<v>>]
ListArg(vs) == [list |-> TRUE, v |-> vs]

\* ------------------------------------------------------------ startup_event
IdleStartup == [pc |-> "idle", ref |-> 0, idx |-> 0, log |-> <<>>]

\* One step of `for event in <list ref>: await event()` at position idx: call
\* the element at idx if the list (as it is now) has one, else leave the loop.
StartupLoop(s, ref, idx) ==
    IF ref # 0 /\ idx <= Len(heap[ref])
    THEN [s EXCEPT !.pc = "in_hook", !.ref = ref, !.idx = idx,
                   !.log = Append(@, CallEntry("startup", heap[ref][idx], NoPayload, <<>>))]
    ELSE [s EXCEPT !.pc = "done"]

\* run(): the server starts and startup_event runs to its first await.
Run ==
    /\ phase = "config"
    /\ LET s == StartupLoop(startup, EventsGetOrEmpty("startup"), 1)
       IN  /\ startup' = s
           /\ phase' = IF s.pc = "done" THEN "serving" ELSE "startup"
    /\ UNCHANGED <<public_key, registries, req>>

\* A startup hook returns: the loop goes on; after it, serving begins.
StartupHookReturn ==
    /\ phase = "startup"
    /\ startup.pc = "in_hook"
    /\ LET done == [startup EXCEPT !.log =
                       Append(@, EndEntry("return", "startup", heap[startup.ref][startup.idx]))]
           s == StartupLoop(done, startup.ref, startup.idx + 1)
       IN  /\ startup' = s
           /\ phase' = IF s.pc = "done" THEN "serving" ELSE "startup"
    /\ UNCHANGED <<public_key, registries, req>>

\* A startup hook raises: application startup fails and the server exits.
StartupHookRaise ==
    /\ phase = "startup"
    /\ startup.pc = "in_hook"
    /\ startup' = [startup EXCEPT !.pc = "failed", !.log =
                       Append(@, EndEntry("raise", "startup", heap[startup.ref][startup.idx]))]
    /\ phase' = "exited"
    /\ UNCHANGED <<public_key, registries, req>>

\* ----------------------------------------------------- interaction(request)
NoResponse == [shape |-> "none", type |-> 0, content |-> "", flags |-> 0]

IdleReq ==
    [pc |-> "idle", signature |-> "absent", timestamp |-> "absent", body_read |-> FALSE,
     interaction_payload |-> NoPayload, kind |-> "", stage |-> 0, ref |-> 0, idx |-> 0,
     outcome |-> "", routed_at |-> 0, log |-> <<>>, status |-> 0, response |-> NoResponse]
UnusedReq == [IdleReq EXCEPT !.pc = "unused"]

\* Response bodies.  shape "detail" is the body {detail: content} of a raised
\* HTTPException; "exception" is a returned HTTPException object serialised
\* field by field; "json" is a returned dict {type, data: {content, flags}};
\* "handler" is whatever the routed handler returned; "error" is the
\* framework's answer to an unhandled exception.
Detail(content) == [shape |-> "detail", type |-> 0, content |-> content, flags |-> 0]
ExceptionObject(content) ==
    [shape |-> "exception", type |-> 0, content |-> content, flags |-> 0]
Message(content) == [shape |-> "json", type |-> 4, content |-> content, flags |-> 64]

MissingSignature == Detail("missing request signature")
InvalidSignature == ExceptionObject("invalid request signature")
Pong == [shape |-> "json", type |-> 1, content |-> "", flags |-> 0]
CommandNotRegistered ==
    Message("This command is not registered with Interaction Gateway API.")
MenuNotRegistered == Message("This menu is not registered with Interaction Gateway API.")
ButtonNotRegistered ==
    Message("This button is not registered with Interaction Gateway API.")
NotYetSupported ==
    Message("This interaction is not yet supported by Interaction Gateway API.")
NotRecognised == Detail("Interaction not recognised by Interaction Gateway API.")
HandlerResult == [shape |-> "handler", type |-> 0, content |-> "", flags |-> 0]
InternalServerError == [shape |-> "error", type |-> 0, content |-> "", flags |-> 0]

Respond(q, status, response) ==
    [q EXCEPT !.pc = "done", !.status = status, !.response = response]

\* raise HTTPException(detail = d, status_code = s): the framework answers s.
RaiseHTTPException(q, status, detail) == Respond(q, status, detail)

\* return <value>: the framework serialises the value and answers 200.  A
\* returned HTTPException object is a value like any other: its fields
\* (status_code, detail, headers) become the JSON body of a 200 response.
ReturnValue(q, value) == Respond(q, 200, value)

\* Any other exception leaves the coroutine: the framework answers 500.
Unhandled(q) == Respond(q, 500, InternalServerError)

\* `not signature`, `not timestamp`: the header is None or the empty string.
Falsy(header) == header \in {"absent", "empty"}

\* What line 244 can do with a signature header of each shape, the key being
\* well-formed: bytes.fromhex raises ValueError on non-hex text; a signature
\* of the wrong length raises ValueError or BadSignatureError depending on
\* the library version; a 64-byte signature verifies or raises
\* BadSignatureError.
VerifyOutcomes(signature) ==
    CASE signature = "nothex" -> {"ValueError"}
      [] signature = "badlen" -> {"ValueError", "BadSignatureError"}
      [] OTHER -> {"BadSignatureError", "verified"}

\* Mutant: the ping test compares with the wrong type code.
IsPingZero(type) == type = 0

\* interaction_payload["type"] == 1
IsPing(type) == type = 1

\* Mutant: the menu handler gets `value` (line 291), the first selected value.
MenuArgsFirstValue(payload) ==
    <<ScalarArg(IF payload.values # <<>> THEN payload.values[1] ELSE "None")>>

\* self.menus[custom_id](Interaction(interaction_payload), interaction_payload["data"]["values"])
MenuArgs(payload) == <<ListArg(payload.values)>>

\* component_type in (3, 4, 5, 6, 7, 8)
IsSelectMenu(component_type) == component_type \in {3, 4, 5, 6, 7, 8}

\* elif type >= 4 or type < 12
IsUnsupported(type) == type >= 4 \/ type < 12

KindEvent(kind) ==
    CASE kind = "command" -> "command_receive"
      [] kind = "menu" -> "menu_select"
      [] OTHER -> "button_click"

\* input_tuple.__add__((option["value"])): the parenthesised value is the
\* value itself, never a tuple (JSON has none), and tuple.__add__ raises
\* TypeError for an operand that is not a tuple.
TupleAdd(input_tuple, value) == [ok |-> FALSE, items |-> input_tuple.items]

\* for option in options: input_tuple = input_tuple.__add__((option["value"]))
RECURSIVE InputTupleFrom(_, _, _)
InputTupleFrom(options, i, input_tuple) ==
    IF i > Len(options) \/ ~input_tuple.ok
    THEN input_tuple
    ELSE InputTupleFrom(options, i + 1, TupleAdd(input_tuple, options[i]))

InputTuple(options) == InputTupleFrom(options, 1, [ok |-> TRUE, items |-> <<>>])

\* if interaction_payload.get("data").get("options"): present and non-empty
OptionsTruthy(payload) == payload.has_options /\ Len(payload.options) > 0

\* Mutant: the call with options falls through to the call without them.
CallHandlerTwice(q, fn, args) ==
    [q EXCEPT !.pc = "in_handler",
              !.log = @ \o <<CallEntry(q.kind, fn, Interaction(q.interaction_payload), args),
                             CallEntry(q.kind, fn, Interaction(q.interaction_payload), <<>>)>>]

\* await handler(Interaction(interaction_payload), *args): the call starts
CallHandler(q, fn, args) ==
    [q EXCEPT !.pc = "in_handler",
              !.log = Append(@, CallEntry(q.kind, fn,
                                          Interaction(q.interaction_payload), args))]

\* Mutant: the handler found when the request was routed is kept and
\* called after the lifecycle handlers.
InvokeHandlerCaptured(q) ==
    LET p == q.interaction_payload
        before == DecoratedUpTo(q.kind, RoutedKey(q), q.routed_at)
        handler == CHOOSE n \in before : \A m \in before : m <= n
    IN  CASE q.kind = "command" ->
               IF OptionsTruthy(p)
               THEN LET t == InputTuple(p.options)
                    IN  IF t.ok THEN CallHandler(q, handler, t.items)
                                ELSE Unhandled(q)
               ELSE CallHandler(q, handler, <<>>)
          [] q.kind = "menu" ->
               CallHandler(q, handler, MenuArgs(p))
          [] OTHER ->
               CallHandler(q, handler, <<>>)

\* Lines 270-278, 301 and 320: the routed handler is looked up in its
\* registry now and called with the arguments of its kind.
InvokeHandler(q) ==
    LET p == q.interaction_payload
    IN  CASE q.kind = "command" ->
               IF OptionsTruthy(p)
               THEN LET t == InputTuple(p.options)
                    IN  IF t.ok THEN CallHandler(q, commands[p.name], t.items)
                                ELSE Unhandled(q)
               ELSE CallHandler(q, commands[p.name], <<>>)
          [] q.kind = "menu" ->
               CallHandler(q, menus[p.custom_id], MenuArgs(p))
          [] OTHER ->
               CallHandler(q, buttons[p.custom_id], <<>>)

\* Mutant: the decoded payload is kept in one place shared by all requests,
\* so the facade wraps what another request has stored there.
CallHookShared(q, stage, ref, idx) ==
    LET others == {req[o].interaction_payload : o \in Reqs}
                      \ {NoPayload, q.interaction_payload}
        shared == IF others = {} THEN q.interaction_payload ELSE CHOOSE p \in others : TRUE
    IN  [q EXCEPT !.pc = "in_hook", !.stage = stage, !.ref = ref, !.idx = idx,
                  !.log = Append(@, CallEntry(IF stage = 1 THEN "interaction_receive"
                                                           ELSE KindEvent(q.kind),
                                              heap[ref][idx], Interaction(shared), <<>>))]

\* await event(Interaction(interaction_payload)): element idx of list ref
CallHook(q, stage, ref, idx) ==
    [q EXCEPT !.pc = "in_hook", !.stage = stage, !.ref = ref, !.idx = idx,
              !.log = Append(@, CallEntry(IF stage = 1 THEN "interaction_receive"
                                                       ELSE KindEvent(q.kind),
                                          heap[ref][idx],
                                          Interaction(q.interaction_payload), <<>>))]

\* for event in self.events.get(<kind event>) or []: the second loop starts
KindLoop(q) ==
    LET ref == EventsGetOrEmpty(KindEvent(q.kind))
    IN  IF ref # 0 THEN CallHook(q, 2, ref, 1) ELSE InvokeHandler(q)

\* for event in self.events.get("interaction_receive") or []: the first loop
InteractionLoop(q) ==
    LET ref == EventsGetOrEmpty("interaction_receive")
    IN  IF ref # 0 THEN CallHook(q, 1, ref, 1) ELSE KindLoop(q)

\* The for loop asks the list object it iterates, as it is now, for its next
\* element; after the last one the code after the loop runs.
NextInLoop(q) ==
    IF q.idx + 1 <= Len(heap[q.ref])
    THEN CallHook(q, q.stage, q.ref, q.idx + 1)
    ELSE IF q.stage = 1 THEN KindLoop(q) ELSE InvokeHandler(q)

\* Lines 254-340: classification and routing of the decoded payload, up to
\* the first await or the response.
Route(q) ==
    LET p == q.interaction_payload
    IN  IF IsPing(p.type) THEN ReturnValue(q, Pong)
        ELSE IF p.type = 2
        THEN IF InRegistry(commands, p.name)
             THEN InteractionLoop([q EXCEPT !.kind = "command", !.routed_at = nfuncs])
             ELSE ReturnValue(q, CommandNotRegistered)
        ELSE IF p.type = 3
        THEN IF IsSelectMenu(p.component_type)
             THEN IF InRegistry(menus, p.custom_id)
                  THEN InteractionLoop([q EXCEPT !.kind = "menu", !.routed_at = nfuncs])
                  ELSE ReturnValue(q, MenuNotRegistered)
             ELSE IF InRegistry(buttons, p.custom_id)
                  THEN InteractionLoop([q EXCEPT !.kind = "button", !.routed_at = nfuncs])
                  ELSE ReturnValue(q, ButtonNotRegistered)
        ELSE IF IsUnsupported(p.type) THEN ReturnValue(q, NotYetSupported)
        ELSE RaiseHTTPException(q, 400, NotRecognised)

\* Lines 231-239: the request arrives with its headers and the coroutine runs
\* to `await request.body()`.  The key is decoded first, then the headers
\* are checked.
Begin(q) ==
    IF public_key # "hex32" THEN Unhandled(q)
    ELSE IF Falsy(q.signature) \/ Falsy(q.timestamp)
    THEN RaiseHTTPException(q, 401, MissingSignature)
    ELSE [q EXCEPT !.pc = "await_body"]

\* Lines 241-252 and on: the body arrives; it is decoded as UTF-8, the
\* signature is verified over timestamp and body, the body is parsed as JSON
\* and routed.
Verify(q, body, outcome) ==
    LET read == [q EXCEPT !.body_read = TRUE]
        tried == [read EXCEPT !.outcome = outcome]
    IN  IF body.kind = "notutf8" THEN Unhandled(read)
        ELSE IF outcome = "ValueError" THEN Unhandled(tried)
        ELSE IF outcome = "BadSignatureError" THEN ReturnValue(tried, InvalidSignature)
        ELSE IF body.kind = "notjson" THEN Unhandled(tried)
        ELSE Route([tried EXCEPT !.interaction_payload = body])

Arrive(r, signature, timestamp) ==
    /\ phase = "serving"
    /\ req[r].pc = "idle"
    /\ req' = [req EXCEPT ![r] =
                 Begin([req[r] EXCEPT !.signature = signature, !.timestamp = timestamp])]
    /\ UNCHANGED <<public_key, registries, phase, startup>>

ReadBody(r, body, outcome) ==
    /\ req[r].pc = "await_body"
    /\ outcome \in VerifyOutcomes(req[r].signature)
    /\ req' = [req EXCEPT ![r] = Verify(req[r], body, outcome)]
    /\ UNCHANGED <<public_key, registries, phase, startup>>

Running(q) == q.log[Len(q.log)]

\* Mutant: a dispatch holds a lock across its awaits, so a request waits
\* for the handlers of the requests before it.
ResumableLocked(r, pc) ==
    /\ req[r].pc = pc
    /\ \A o \in Reqs : o < r => req[o].pc \notin {"in_hook", "in_handler"}

\* The coroutine of request r is suspended in the await named by pc.  Its
\* resumption depends on the awaited function alone: the code takes no lock
\* and waits for no other request.
Resumable(r, pc) == req[r].pc = pc

\* Mutant: the loop consumes the list it iterates, removing the handler it
\* has just awaited.
HookReturnConsuming(r) ==
    /\ Resumable(r, "in_hook")
    /\ LET q == req[r]
           back == [q EXCEPT !.log = Append(@, EndEntry("return", Running(q).what,
                                                        Running(q).fn))]
       IN  /\ req' = [req EXCEPT ![r] = NextInLoop(back)]
           /\ heap' = [heap EXCEPT ![q.ref] = Tail(@)]
    /\ UNCHANGED <<public_key, commands, buttons, menus, events, nfuncs, on_calls,
                   decorated, phase, startup>>

\* The awaited lifecycle handler returns: the loop goes on.
HookReturn(r) ==
    /\ Resumable(r, "in_hook")
    /\ LET q == req[r]
           back == [q EXCEPT !.log = Append(@, EndEntry("return", Running(q).what,
                                                        Running(q).fn))]
       IN  req' = [req EXCEPT ![r] = NextInLoop(back)]
    /\ UNCHANGED <<public_key, registries, phase, startup>>

\* Mutant: the exception of a lifecycle handler is swallowed and the loop
\* goes on to the next handler.
HookRaiseSwallowed(r) ==
    /\ Resumable(r, "in_hook")
    /\ LET q == req[r]
           back == [q EXCEPT !.log = Append(@, EndEntry("raise", Running(q).what,
                                                        Running(q).fn))]
       IN  req' = [req EXCEPT ![r] = NextInLoop(back)]
    /\ UNCHANGED <<public_key, registries, phase, startup>>

\* The awaited lifecycle handler raises: the exception leaves the coroutine.
HookRaise(r) ==
    /\ Resumable(r, "in_hook")
    /\ LET q == req[r]
           back == [q EXCEPT !.log = Append(@, EndEntry("raise", Running(q).what,
                                                        Running(q).fn))]
       IN  req' = [req EXCEPT ![r] = Unhandled(back)]
    /\ UNCHANGED <<public_key, registries, phase, startup>>

\* The routed handler returns: its value is the response.
HandlerReturn(r) ==
    /\ Resumable(r, "in_handler")
    /\ LET q == req[r]
           back == [q EXCEPT !.log = Append(@, EndEntry("return", Running(q).what,
                                                        Running(q).fn))]
       IN  req' = [req EXCEPT ![r] = ReturnValue(back, HandlerResult)]
    /\ UNCHANGED <<public_key, registries, phase, startup>>

\* The routed handler raises.
HandlerRaise(r) ==
    /\ Resumable(r, "in_handler")
    /\ LET q == req[r]
           back == [q EXCEPT !.log = Append(@, EndEntry("raise", Running(q).what,
                                                        Running(q).fn))]
       IN  req' = [req EXCEPT ![r] = Unhandled(back)]
    /\ UNCHANGED <<public_key, registries, phase, startup>>

\* ------------------------------------------------------------ specification
\* The state after GatewayClient(...): empty registries, no request yet.
InitWith(requests) ==
    /\ public_key \in PublicKeys
    /\ commands = [k \in Keys |-> NotRegistered]
    /\ buttons = [k \in Keys |-> NotRegistered]
    /\ menus = [k \in Keys |-> NotRegistered]
    /\ events = [e \in EventNames |-> AbsentEntry]
    /\ heap = <<>>
    /\ nfuncs = 0
    /\ on_calls = [e \in EventNames |-> <<>>]
    /\ decorated = <<>>
    /\ phase = "config"
    /\ startup = IdleStartup
    /\ req = [r \in Reqs |-> IF r \in requests THEN IdleReq ELSE UnusedReq]

Init == InitWith({1})

Next ==
    \/ \E k \in Keys : RegisterCommand(k)
    \/ \E k \in Keys : RegisterButton(k)
    \/ \E k \in Keys : RegisterMenu(k)
    \/ \E e \in EventNames : On(e)
    \/ Run
    \/ StartupHookReturn
    \/ StartupHookRaise
    \/ \E r \in Reqs, s \in SignatureHeaders, t \in TimestampHeaders : Arrive(r, s, t)
    \/ \E r \in Reqs, b \in Bodies, o \in {"ValueError", "BadSignatureError", "verified"} :
          ReadBody(r, b, o)
    \/ \E r \in Reqs : HookReturn(r)
    \/ \E r \in Reqs : HookRaise(r)
    \/ \E r \in Reqs : HandlerReturn(r)
    \/ \E r \in Reqs : HandlerRaise(r)

Spec == Init /\ [][Next]_vars

\* ------------------------------------------- two requests in flight at once
\* FastAPI runs every request to /interaction as its own coroutine on the one
\* event loop: the coroutines interleave at their awaits (lines 241, 264, 268,
\* 276, 278, 295, 299, 301, 314, 318, 320).  The specification below follows
\* two of them, both signed, through every interleaving, with commands and
\* their lifecycle events registered before and during the dispatches.
ConcEvents == {"interaction_receive", "command_receive"}

ConcBodies == {b \in Bodies : b.kind = "json" /\ b.type = 2 /\ ~b.has_options}

InitConc == InitWith({1, 2}) /\ public_key = "hex32"

\* What the coroutine of request r does when it is resumed.
Progress(r) ==
    \/ \E b \in ConcBodies : ReadBody(r, b, "verified")
    \/ HookReturn(r)
    \/ HookRaise(r)
    \/ HandlerReturn(r)
    \/ HandlerRaise(r)

NextConc ==
    \/ \E k \in Keys : RegisterCommand(k)
    \/ \E e \in ConcEvents : On(e)
    \/ Run
    \/ \E r \in Reqs : Arrive(r, "hex64", "present")
    \/ \E r \in Reqs : Progress(r)

SpecConc == InitConc /\ [][NextConc]_vars

\* The same with request 2 scheduled fairly: the event loop resumes every
\* coroutine that is ready, the body of an accepted request arrives, and the
\* functions awaited for request 2 end, by returning or by raising.  Nothing
\* is assumed of request 1: a function awaited for it may never return.
SpecLive == SpecConc /\ WF_vars(Progress(2))

\* ------------------------------------------------------ reading the call log
RoutedKinds == {"command", "button", "menu"}

\* Positions in q's log where a function of one of the kinds `whats` is called.
CallsOf(q, whats) ==
    {i \in 1..Len(q.log) : q.log[i].op = "call" /\ q.log[i].what \in whats}

RoutedCalls(q) == CallsOf(q, RoutedKinds)

\* The request body was not JSON-decoded and no function was called for it.
Untouched(q) == q.interaction_payload = NoPayload /\ q.log = <<>>

\* ------------------------------------------------------------------ claims

\* C1: a request that carries both signature headers and whose signature does
\* not verify (BadSignatureError) is answered with status 401 and detail
\* "invalid request signature"; its body is not JSON-decoded and no lifecycle
\* or routed handler is called.  The code returns the HTTPException instead
\* of raising it, so the answer is a 200.
C1_InvalidSignatureAnswers401 ==
    \A r \in Reqs :
        (req[r].pc = "done" /\ req[r].outcome = "BadSignatureError")
        => /\ req[r].status = 401
           /\ req[r].response.content = "invalid request signature"
           /\ Untouched(req[r])

\* C2: a request in which X-Signature-Ed25519 or X-Signature-Timestamp is
\* absent or empty is answered 401 "missing request signature"; its body is
\* never read or decoded and no handler is called.  The code decodes the
\* public key before it looks at the headers, so with a key that is not
\* well-formed the answer is a 500.
C2_MissingHeadersAnswer401 ==
    \A r \in Reqs :
        (req[r].pc = "done" /\ (Falsy(req[r].signature) \/ Falsy(req[r].timestamp)))
        => /\ req[r].status = 401
           /\ req[r].response = MissingSignature
           /\ ~req[r].body_read
           /\ Untouched(req[r])

\* C2, the part that holds: with a well-formed public key such a request is
\* answered 401 "missing request signature" with the body unread.
C2_WithWellFormedKey ==
    public_key = "hex32" => C2_MissingHeadersAnswer401

\* C3: whatever the registries hold, a verified request with type = 1 is
\* answered 200 {type: 1} and no lifecycle, command, button or menu handler
\* is called during its dispatch.
C3_PingAnswersPong ==
    \A r \in Reqs :
        (req[r].interaction_payload.kind = "json" /\ req[r].interaction_payload.type = 1)
        => /\ req[r].pc = "done"
           /\ req[r].status = 200
           /\ req[r].response = [shape |-> "json", type |-> 1, content |-> "", flags |-> 0]
           /\ req[r].log = <<>>

\* A ping was answered while an interaction_receive handler and a command
\* were registered.
C3_Witness ==
    \E r \in Reqs :
        /\ req[r].pc = "done"
        /\ req[r].interaction_payload.kind = "json"
        /\ req[r].interaction_payload.type = 1
        /\ Truthy(EventsGet("interaction_receive"))
        /\ \E k \in Keys : commands[k] # NotRegistered

\* The hooks on(event) had been given when request q was routed, in order.
HooksAtRoute(q, event) == SelectSeq(on_calls[event], LAMBDA f : f <= q.routed_at)

\* The functions q's dispatch called for `event`, in call order.
FnsCalled(q, event) ==
    LET sel == SelectSeq(q.log, LAMBDA x : x.op = "call" /\ x.what = event)
    IN  [i \in 1..Len(sel) |-> sel[i].fn]

IsPrefix(s, t) == Len(s) <= Len(t) /\ \A i \in 1..Len(s) : s[i] = t[i]

\* C4: when N >= 2 handlers were registered for one event name, the event's
\* registry entry holds all N in registration order, and a dispatch that
\* fires the event calls each of them in that order.  The code stores None
\* under the event name at every second registration.
C4_EntryHoldsAllHandlers ==
    /\ \A e \in EventNames :
          Len(on_calls[e]) >= 2
          => (events[e].tag = "list" /\ heap[events[e].ref] = on_calls[e])
    /\ \A r \in Reqs :
          RoutedCalls(req[r]) # {}
          => \A e \in {"interaction_receive", KindEvent(req[r].kind)} :
                Len(HooksAtRoute(req[r], e)) >= 2
                => IsPrefix(HooksAtRoute(req[r], e), FnsCalled(req[r], e))

\* No lifecycle handler of q's dispatch raised.
NoHookRaised(q) ==
    \A i \in 1..Len(q.log) : q.log[i].op = "raise" => q.log[i].what \in RoutedKinds

\* C5: a verified command request with non-empty options [o1, ..., on] and a
\* registered name calls the command handler with (interaction, o1.value,
\* ..., on.value), in payload order.  The code raises TypeError while it
\* builds the argument tuple, so the handler is never called.
C5_OptionValuesPassedInOrder ==
    \A r \in Reqs :
        LET q == req[r]
            p == q.interaction_payload
        IN  (q.pc = "done" /\ q.kind = "command" /\ OptionsTruthy(p) /\ NoHookRaised(q))
            => \E i \in RoutedCalls(q) :
                  /\ q.log[i].what = "command"
                  /\ q.log[i].facade = p
                  /\ q.log[i].args = [j \in 1..Len(p.options) |-> ScalarArg(p.options[j])]

\* C6: a verified request whose type is outside every recognised range
\* (below 1, or 12 and above) is answered 400 and never gets the "not yet
\* supported" default response.  The code's test `type >= 4 or type < 12`
\* is true of every integer.
C6_UnknownTypeAnswers400 ==
    \A r \in Reqs :
        LET p == req[r].interaction_payload
        IN  (p.kind = "json" /\ (p.type < 1 \/ p.type >= 12))
            => /\ req[r].pc = "done"
               /\ req[r].status = 400
               /\ req[r].response # NotYetSupported

\* <<call f1, return f1, call f2, return f2, ...>> for the hooks fs of `event`.
AwaitedInTurn(event, fs) ==
    [j \in 1..(2 * Len(fs)) |->
        <<IF j % 2 = 1 THEN "call" ELSE "return", event, fs[(j + 1) \div 2]>>]

\* What q's log holds, before position i, about the functions that were
\* registered when q was routed.
KnownBefore(q, i) ==
    LET sel == SelectSeq(SubSeq(q.log, 1, i - 1), LAMBDA x : x.fn <= q.routed_at)
    IN  [j \in 1..Len(sel) |-> <<sel[j].op, sel[j].what, sel[j].fn>>]

\* C7: for a verified command, button or menu request with a registered
\* handler, all interaction_receive handlers run first, then all handlers of
\* the kind's event, each awaited to completion before the next starts, and
\* only then is the routed handler called.  With two handlers registered for
\* an event the code has lost the event's list (C4) and runs none of them.
C7_LifecycleBeforeHandler ==
    \A r \in Reqs :
        \A i \in RoutedCalls(req[r]) :
            KnownBefore(req[r], i) =
                AwaitedInTurn("interaction_receive",
                              HooksAtRoute(req[r], "interaction_receive"))
                \o AwaitedInTurn(KindEvent(req[r].kind),
                                 HooksAtRoute(req[r], KindEvent(req[r].kind)))

\* The default response type 4, flags 64, with the given reason, and no
\* function called.
DefaultResponse(q, reason) ==
    /\ q.pc = "done"
    /\ q.status = 200
    /\ q.response = [shape |-> "json", type |-> 4, content |-> reason, flags |-> 64]
    /\ q.log = <<>>

\* C8: when a verified command, button or menu request is routed and its
\* identifier is not in the registry of its kind, the response is the default
\* {type: 4, data: {content: reason, flags: 64}} with a reason of its own for
\* command, menu and button, and no lifecycle or routed handler is called.
C8_UnroutableGetsDefault ==
    [][\A r \in Reqs :
          (req[r].pc = "await_body" /\ req'[r].interaction_payload.kind = "json")
          => LET p == req'[r].interaction_payload
             IN  /\ (p.type = 2 /\ commands[p.name] = NotRegistered)
                    => DefaultResponse(req'[r],
                         "This command is not registered with Interaction Gateway API.")
                 /\ (p.type = 3 /\ p.component_type \in 3..8
                              /\ menus[p.custom_id] = NotRegistered)
                    => DefaultResponse(req'[r],
                         "This menu is not registered with Interaction Gateway API.")
                 /\ (p.type = 3 /\ p.component_type \notin 3..8
                              /\ buttons[p.custom_id] = NotRegistered)
                    => DefaultResponse(req'[r],
                         "This button is not registered with Interaction Gateway API.")]_vars

\* A menu request for an unregistered custom id got the menu wording while
\* the same id was registered as a button and an interaction_receive handler
\* was registered.
C8_Witness ==
    \E r \in Reqs :
        /\ req[r].pc = "done"
        /\ req[r].response = MenuNotRegistered
        /\ req[r].log = <<>>
        /\ buttons[req[r].interaction_payload.custom_id] # NotRegistered
        /\ menus[req[r].interaction_payload.custom_id] = NotRegistered
        /\ Truthy(EventsGet("interaction_receive"))

\* C9: a verified component request with a select-menu component_type (3..8)
\* and a registered menu id calls the menu handler with (interaction, values),
\* the whole values sequence as one list argument; with any other
\* component_type and a registered button id it calls the button handler
\* with (interaction) alone.
C9_ComponentArguments ==
    \A r \in Reqs :
        LET q == req[r]
            p == q.interaction_payload
            menu == p.component_type \in 3..8
        IN  (p.kind = "json" /\ p.type = 3)
            => /\ \A i \in RoutedCalls(q) :
                     /\ q.log[i].facade = p
                     /\ q.log[i].what = IF menu THEN "menu" ELSE "button"
                     /\ q.log[i].args = IF menu THEN <<[list |-> TRUE, v |-> p.values]>>
                                                ELSE <<>>
               /\ (/\ q.pc = "done"
                   /\ NoHookRaised(q)
                   /\ q.response \notin {MenuNotRegistered, ButtonNotRegistered})
                  => RoutedCalls(q) # {}

\* A menu handler was called with the two selected values as one list, after
\* a lifecycle handler had run.
C9_Witness ==
    \E r \in Reqs :
        /\ req[r].pc = "done"
        /\ req[r].response = HandlerResult
        /\ req[r].interaction_payload.values = <<"x", "y">>
        /\ CallsOf(req[r], {"menu_select"}) # {}
        /\ \E i \in RoutedCalls(req[r]) :
              req[r].log[i].args = <<[list |-> TRUE, v |-> <<"x", "y">>]>>

\* The responses of the rejection and short-circuit paths.
ShortCircuits ==
    {MissingSignature, InvalidSignature, Pong, CommandNotRegistered, MenuNotRegistered,
     ButtonNotRegistered, NotYetSupported, NotRecognised}

\* C10: for every request a routed handler is called at most once; a request
\* answered on a rejection or short-circuit path has had no function called;
\* and once a request has its response nothing more happens for it.
C10_AtMostOnceAndTerminal ==
    [][\A r \in Reqs :
          /\ Cardinality(RoutedCalls(req'[r])) <= 1
          /\ req'[r].response \in ShortCircuits
             => (req'[r].pc = "done" /\ req'[r].log = <<>>)
          /\ req[r].pc = "done" => req'[r] = req[r]]_vars

\* A request was answered by its routed handler, called once, after a
\* lifecycle handler, and a function was registered after the answer.
C10_Witness ==
    \E r \in Reqs :
        /\ req[r].pc = "done"
        /\ req[r].response = HandlerResult
        /\ Cardinality(RoutedCalls(req[r])) = 1
        /\ CallsOf(req[r], {"interaction_receive"}) # {}
        /\ nfuncs > req[r].routed_at

\* --------------------------------------------------------------------- C11
\* Positions in q's log where a lifecycle handler raised.
HookFailures(q) ==
    {i \in 1..Len(q.log) : q.log[i].op = "raise" /\ q.log[i].what \in EventNames}

\* The coroutine of request o, if it is suspended, can be resumed.
CanProceed(o) ==
    /\ req[o].pc = "await_body" => ENABLED (\E b \in ConcBodies : ReadBody(o, b, "verified"))
    /\ req[o].pc = "in_hook" => ENABLED HookReturn(o)
    /\ req[o].pc = "in_handler" => ENABLED HandlerReturn(o)

\* C11: when a lifecycle handler of a request raises, that request ends at
\* once with the server's error answer: the raise is the last entry of its
\* log, so no later lifecycle handler and no routed handler is called for
\* it, and no function was called twice for it.  The step of the failure
\* changes nothing of any other request, and every other request in flight
\* can still be resumed.
C11_HookFailureFatalForItsRequest ==
    /\ [](\A r \in Reqs : HookFailures(req[r]) # {} =>
             /\ req[r].pc = "done"
             /\ req[r].status = 500
             /\ req[r].response = InternalServerError
             /\ HookFailures(req[r]) = {Len(req[r].log)}
             /\ RoutedCalls(req[r]) = {}
             /\ \A i, j \in CallsOf(req[r], EventNames) :
                    req[r].log[i].fn = req[r].log[j].fn => i = j
             /\ \A o \in Reqs \ {r} : CanProceed(o))
    /\ [][\A r \in Reqs :
             (HookFailures(req[r]) = {} /\ HookFailures(req'[r]) # {})
             => \A o \in Reqs \ {r} : req'[o] = req[o]]_vars

\* One request failed in its interaction_receive handler, with a
\* command_receive handler registered before it was routed, while the other
\* request was answered by its routed handler.
C11_Witness ==
    \E r \in Reqs, o \in Reqs :
        /\ r # o
        /\ HookFailures(req[r]) # {}
        /\ CallsOf(req[r], {"interaction_receive"}) # {}
        /\ HooksAtRoute(req[r], "command_receive") # <<>>
        /\ req[o].pc = "done"
        /\ req[o].response = HandlerResult

\* --------------------------------------------------------------------- C12
\* C12: with two requests in flight, suspended and resumed in any order,
\* every facade handed to a lifecycle handler or to a routed handler of a
\* request wraps the payload of that request, and so never the different
\* payload of the other request.
C12_FacadeWrapsOwnPayload ==
    \A r \in Reqs :
        \A i \in CallsOf(req[r], EventNames \cup RoutedKinds) :
            /\ req[r].log[i].facade = Interaction(req[r].interaction_payload)
            /\ \A o \in Reqs \ {r} :
                   req[o].interaction_payload # req[r].interaction_payload
                   => req[r].log[i].facade # Interaction(req[o].interaction_payload)

\* Two requests with different payloads are suspended at the same time, one
\* in a lifecycle handler and one in its routed handler, which it reached
\* through a lifecycle handler.
C12_Witness ==
    \E r \in Reqs, o \in Reqs :
        /\ req[r].interaction_payload # NoPayload
        /\ req[o].interaction_payload # NoPayload
        /\ req[r].interaction_payload # req[o].interaction_payload
        /\ req[r].pc = "in_hook"
        /\ req[o].pc = "in_handler"
        /\ CallsOf(req[o], EventNames) # {}

\* --------------------------------------------------------------------- C13
\* Every custom id a button was registered under maps, in buttons, to a
\* function registered as a button under it, and likewise for menus.
BothStayRegistered ==
    \A k \in Keys :
        /\ LastDecorated("button", k) # 0
           => (buttons[k] # 0 /\ decorated[buttons[k]] = Decoration("button", k))
        /\ LastDecorated("menu", k) # 0
           => (menus[k] # 0 /\ decorated[menus[k]] = Decoration("menu", k))

\* At most one routed handler was called for a component request, and it is
\* a function registered under the request's custom id as a menu when
\* data.component_type is one of 3..8 and as a button otherwise.
ComponentHandlerOfItsKind ==
    \A r \in Reqs :
        LET p == req[r].interaction_payload
        IN  (p.kind = "json" /\ p.type = 3) =>
              /\ Cardinality(RoutedCalls(req[r])) <= 1
              /\ \A i \in RoutedCalls(req[r]) :
                     decorated[req[r].log[i].fn] =
                        Decoration(IF p.component_type \in 3..8 THEN "menu" ELSE "button",
                                   p.custom_id)

\* C13: a button and a menu registered under one custom id both stay
\* registered, each in its own registry; a component request whose custom id
\* has both is routed to the menu when data.component_type is one of 3..8
\* and to the button otherwise; and the one routed handler called for a
\* component request is a function registered as a menu under its custom id
\* in the first case and as a button under it in the second.  The two
\* state predicates are stated of the state each step leads to, for the
\* steps that change what they read: the registries, the requests, and the
\* history of decorator calls, which only grows.
C13_ButtonAndMenuShareAnId ==
    [][/\ <<buttons, menus, decorated>>' # <<buttons, menus, decorated>>
          => (BothStayRegistered' /\ IsPrefix(decorated, decorated'))
       /\ req' # req => ComponentHandlerOfItsKind'
       /\ \A r \in Reqs :
             LET p == req'[r].interaction_payload
             IN  (/\ req[r].pc = "await_body"
                  /\ p.kind = "json" /\ p.type = 3
                  /\ buttons[p.custom_id] # 0 /\ menus[p.custom_id] # 0)
                 => req'[r].kind = IF p.component_type \in 3..8 THEN "menu" ELSE "button"]_vars

\* A button and a menu are registered under one custom id and a select-menu
\* request with that id was answered by the menu's handler.
C13_Witness ==
    \E r \in Reqs :
        LET p == req[r].interaction_payload
        IN  /\ p.kind = "json" /\ p.type = 3 /\ p.component_type \in 3..8
            /\ buttons[p.custom_id] # 0
            /\ menus[p.custom_id] # 0
            /\ buttons[p.custom_id] <= req[r].routed_at
            /\ req[r].response = HandlerResult
            /\ \E i \in RoutedCalls(req[r]) : req[r].log[i].fn = menus[p.custom_id]

\* The same, for a request with a button's component type.
C13_WitnessButton ==
    \E r \in Reqs :
        LET p == req[r].interaction_payload
        IN  /\ p.kind = "json" /\ p.type = 3 /\ p.component_type = 2
            /\ buttons[p.custom_id] # 0
            /\ menus[p.custom_id] # 0
            /\ menus[p.custom_id] <= req[r].routed_at
            /\ req[r].response = HandlerResult
            /\ \E i \in RoutedCalls(req[r]) : req[r].log[i].fn = buttons[p.custom_id]

\* --------------------------------------------------------------------- C14
\* C14: in each of commands, buttons and menus a key maps to the function of
\* the last registration made for it; and the routed handler called for a
\* request is a function registered for the request's key in its registry,
\* never one registered before the last registration that preceded the
\* dispatch, and exactly that last one when the key was not registered again
\* afterwards.
C14_LastRegistrationWins ==
    /\ \A k \in Keys :
          /\ commands[k] = LastDecorated("command", k)
          /\ buttons[k] = LastDecorated("button", k)
          /\ menus[k] = LastDecorated("menu", k)
    /\ \A r \in Reqs : \A i \in RoutedCalls(req[r]) :
          LET q == req[r]
              before == DecoratedUpTo(q.kind, RoutedKey(q), q.routed_at)
          IN  /\ before # {}
              /\ decorated[q.log[i].fn] = Decoration(q.kind, RoutedKey(q))
              /\ \A m \in before : m <= q.log[i].fn
              /\ LastDecorated(q.kind, RoutedKey(q)) <= q.routed_at
                 => q.log[i].fn = LastDecorated(q.kind, RoutedKey(q))

\* A command name was registered twice, then a request for it was
\* dispatched and answered by the handler of the second registration.
C14_Witness ==
    \E r \in Reqs :
        LET q == req[r]
        IN  /\ q.kind = "command"
            /\ Cardinality(DecoratedUpTo("command", RoutedKey(q), q.routed_at)) >= 2
            /\ LastDecorated("command", RoutedKey(q)) <= q.routed_at
            /\ q.response = HandlerResult
            /\ \E i \in RoutedCalls(q) : q.log[i].fn = LastDecorated("command", RoutedKey(q))

\* --------------------------------------------------------------------- C15
\* C15: every step of a dispatch, whatever the request, leaves commands,
\* buttons, menus and events, with the lists events refers to, as they
\* were; they change only in the step of a registration call.
C15_DispatchLeavesRegistries ==
    [][(req' # req \/ nfuncs' = nfuncs)
       => UNCHANGED <<commands, buttons, menus, events, heap>>]_vars

\* A request was dispatched through a lifecycle handler to its routed
\* handler and answered, and the registries hold what was registered.
C15_Witness ==
    \E r \in Reqs :
        /\ req[r].pc = "done"
        /\ req[r].response = HandlerResult
        /\ CallsOf(req[r], EventNames) # {}
        /\ \E e \in EventNames : events[e].tag = "list" /\ heap[events[e].ref] # <<>>
        /\ \E k \in Keys : commands[k] # 0 \/ buttons[k] # 0 \/ menus[k] # 0

\* --------------------------------------------------------------------- C16
\* In this step the dispatch of request r looked up self.events.get(event)
\* and went on as for an event without handlers: after routing it did not
\* call an interaction_receive handler, or it called its routed handler
\* without calling a handler of the event of its kind first.
ObservedNoHandlers(r, event) ==
    LET q == req'[r]
        called == Len(q.log) > 0 /\ q.log[Len(q.log)].op = "call"
    IN  /\ q.kind # ""
        /\ \/ /\ event = "interaction_receive"
              /\ req[r].pc = "await_body"
              /\ ~(called /\ q.log[Len(q.log)].what = "interaction_receive")
           \/ /\ event = KindEvent(q.kind)
              /\ req[r].pc = "await_body" \/ (req[r].pc = "in_hook" /\ req[r].stage = 1)
              /\ called
              /\ q.log[Len(q.log)].what \in RoutedKinds

\* C16: with registrations interleaved with a dispatch in any way, no key
\* of commands, buttons or menus ever disappears, every routed handler a
\* dispatch invokes is a registered function, and a dispatch that looks up
\* an event for which a handler was registered before never finds it
\* without handlers.
C16_LookupsSeeWholeMappings ==
    [][/\ \A k \in Keys :
             /\ commands[k] # NotRegistered => commands'[k] # NotRegistered
             /\ buttons[k] # NotRegistered => buttons'[k] # NotRegistered
             /\ menus[k] # NotRegistered => menus'[k] # NotRegistered
       /\ \A r \in Reqs : \A i \in RoutedCalls(req'[r]) :
             req'[r].log[i].fn # NotRegistered
       /\ \A r \in Reqs, e \in EventNames :
             on_calls[e] # <<>> => ~ObservedNoHandlers(r, e)]_vars

\* --------------------------------------------------------------------- C17
InFlight(r) == req[r].pc \in {"await_body", "in_hook", "in_handler"}

\* C17: whatever becomes of request 1, also when a lifecycle handler or
\* the routed handler awaited for it never returns, request 2, scheduled
\* fairly, gets from every await to its terminal response; and while
\* request 1 is suspended in a handler, request 2 can be resumed.
C17_StuckRequestBlocksOnlyItself ==
    /\ InFlight(2) ~> req[2].pc = "done"
    /\ [](req[1].pc \in {"in_hook", "in_handler"} => CanProceed(2))

\* Request 1 was routed straight to its routed handler and is still
\* suspended in it; request 2 was routed later, went through a lifecycle
\* handler and has been answered by its routed handler.
C17_Witness ==
    /\ req[1].pc = "in_handler"
    /\ Len(req[1].log) = 1
    /\ req[2].routed_at > req[1].routed_at
    /\ CallsOf(req[2], EventNames) # {}
    /\ req[2].pc = "done"
    /\ req[2].response = HandlerResult

\* --------------------------------------------------------------------- C18
\* C18: a request that carries both headers, with a signature that is not
\* hexadecimal or not of the scheme's length, ends with an error outcome
\* of its own: not the answer of the invalid-signature path, not an
\* accepted request (status 200), and not the answer the server gives for
\* any exception nobody handled; its body is not JSON-decoded and no
\* function is called for it.
C18_MalformedSignatureOutcome ==
    \A r \in Reqs :
        (/\ req[r].pc = "done"
         /\ public_key = "hex32"
         /\ req[r].signature \in {"nothex", "badlen"}
         /\ ~Falsy(req[r].timestamp)
         /\ req[r].body_read
         /\ req[r].outcome # "")
        => /\ req[r].response # InvalidSignature
           /\ req[r].status # 200
           /\ req[r].response # InternalServerError
           /\ Untouched(req[r])

\* --------------------------------------------------------------------- C19
\* A log as the sequence of its <<op, what, fn>>.
Steps(log) == [i \in 1..Len(log) |-> <<log[i].op, log[i].what, log[i].fn>>]

\* C19: when the server begins to serve, every function registered for
\* "startup" until then, however many, has been called once and has
\* returned, one after the other in the order of registration; and when a
\* request to /interaction is first taken up, startup_event is over with
\* every call it made completed.
C19_StartupHandlersRunOnceInOrder ==
    [][/\ (phase # "serving" /\ phase' = "serving")
          => Steps(startup'.log) = AwaitedInTurn("startup", on_calls'["startup"])
       /\ \A r \in Reqs :
             (req[r].pc = "idle" /\ req'[r].pc # "idle")
             => /\ startup.pc = "done"
                /\ Steps(startup.log) = AwaitedInTurn("startup", FnsCalled(startup, "startup"))]_vars

\* --------------------------------------------------------------------- C20
RegistryOf(kind) ==
    CASE kind = "command" -> commands
      [] kind = "menu" -> menus
      [] OTHER -> buttons

\* C20: in the step in which a dispatch calls its routed handler, the
\* function called is the value its registry holds for the request's key
\* in that step, which is the function of the last registration made for
\* the key until then: when the key was registered again after the request
\* was routed, it is the newly registered function.
C20_HandlerLookedUpAtInvocation ==
    [][\A r \in Reqs : \A i \in RoutedCalls(req'[r]) \ RoutedCalls(req[r]) :
          LET q == req'[r]
          IN  /\ q.log[i].fn = RegistryOf(q.kind)[RoutedKey(q)]
              /\ q.log[i].fn = LastDecorated(q.kind, RoutedKey(q))
              /\ LastDecorated(q.kind, RoutedKey(q)) > q.routed_at
                 => q.log[i].fn \notin DecoratedUpTo(q.kind, RoutedKey(q), q.routed_at)]_vars

\* While a dispatch was suspended in a lifecycle handler its key was
\* registered again, and the dispatch then called the new function and was
\* answered by it.
C20_Witness ==
    \E r \in Reqs :
        /\ req[r].response = HandlerResult
        /\ CallsOf(req[r], EventNames) # {}
        /\ \E i \in RoutedCalls(req[r]) :
              /\ req[r].log[i].fn > req[r].routed_at
              /\ decorated[req[r].log[i].fn] = Decoration(req[r].kind, RoutedKey(req[r]))

====
